---- MODULE Spec2Model ----
(***************************************************************************)
(* Model of app.py: a Streamlit script that keeps a conversation state in  *)
(* st.session_state, provisions a remote assistant and thread, and drives  *)
(* one remote Run per chat prompt (poll, fulfil tool calls, fetch reply).  *)
(* Every remote call of the script is one step, so that the remote service *)
(* can move between two calls.  The remote service is modelled at its      *)
(* interface: runs move queued -> in_progress -> {completed,               *)
(* requires_action, failed, cancelled, expired}; any call may raise.       *)
(***************************************************************************)
EXTENDS Integers, Sequences, FiniteSets, TLC

VARIABLES
    assistant_id,   \* st.session_state.assistant_id
    thread_id,      \* st.session_state.thread_id
    messages,       \* st.session_state.messages
    email_list,     \* st.session_state.email_list
    pc,             \* position of the running script
    prompt,         \* local: the submitted chat input
    run,            \* local: the Run object held by the script (id, status)
    tool_calls,     \* local: run.required_action.submit_tool_outputs.tool_calls
    tool_outputs,   \* local: the list built in the requires_action branch
    loop,           \* which waiting loop the script is in ("A" or "B")
    polls,          \* retrieve-run queries made in the current loop
    observed,       \* statuses the script has seen on its Run, in order
    calls,          \* remote calls made by the current script run
    appended,       \* entries the current script run appended to messages
    sent,           \* send_email invocations of the current script run
    ui,             \* status element shown by the current script run
    files,          \* remote: number of uploaded files
    assistants,     \* remote: number of created assistants
    threads,        \* remote: thread id -> chronological message log
    runs,           \* remote: run id -> run
    interactions,   \* state-changing user interactions so far
    errors          \* calls that raised so far

vars == << assistant_id, thread_id, messages, email_list, pc, prompt, run,
           tool_calls, tool_outputs, loop, polls, observed, calls, appended,
           sent, ui,
           files, assistants, threads, runs, interactions, errors >>

session == << assistant_id, thread_id, messages, email_list >>
locals == << prompt, run, tool_calls, tool_outputs, loop, polls, observed >>
remote == << files, assistants, threads, runs >>
budget == << interactions, errors >>

----------------------------------------------------------------------------
(* Bounds *)

MaxInteractions == 3
MaxErrors == 1
MaxPolls == 1
MaxCalls == 2
MaxCtxLen == 2

----------------------------------------------------------------------------
(* Values *)

None == 0

\* the text typed in the n-th interaction
Prompts(n) == {"prompt-" \o ToString(n)}

Addresses == {"a@example.com", "b@example.com"}

EmailInputs == {"", "a@example.com"}

ReplyText(r) == "reply-" \o ToString(r)

Chars == {" ", "c"}

Contexts == UNION { [1..n -> Chars] : n \in 0..MaxCtxLen }

RECURSIVE lstrip(_)
lstrip(s) == IF s # <<>> /\ Head(s) = " " THEN lstrip(Tail(s)) ELSE s

RECURSIVE rstrip(_)
rstrip(s) ==
    IF s # <<>> /\ s[Len(s)] = " " THEN rstrip(SubSeq(s, 1, Len(s) - 1)) ELSE s

strip(s) == rstrip(lstrip(s))

ContextMissingAlt(context) == context = <<>>

ContextMissing(context) == strip(context) = <<>>

HandlesMissingAlt(a, t) == a = None /\ t = None

HandlesMissing(a, t) == a = None \/ t = None

PollingStatusesAlt == {"queued"}

PollingStatuses == {"queued", "in_progress"}

\* statuses of a Run that ended without a reply; the script treats them
\* alike, so the service side keeps the single status "no_output" and
\* reports it as any of the three
NoOutputStatuses == {"failed", "cancelled", "expired"}

Reported(status) == IF status = "no_output" THEN NoOutputStatuses ELSE {status}

InFlightStatuses == {"queued", "in_progress", "requires_action"}

NoRun == [id |-> None, status |-> "none"]

MessageAlt(role, content) == [role |-> "user", content |-> content]

Message(role, content) == [role |-> role, content |-> content]

----------------------------------------------------------------------------
(* Tool calls *)

\* arguments as json.loads returns them when the service has filled in
\* every parameter the tool schema requires; arguments it has not are not
\* kept apart: they make the dispatch loop raise (DispatchError)
Arguments == { [to |-> a, subject |-> "S", body |-> "B"] : a \in Addresses }

CallShapes ==
    { [name |-> "send_email", arguments |-> a] : a \in Arguments }
    \cup { [name |-> "get_weather", arguments |-> [city |-> "Kochi"]] }

CallId(r, i) == 10 * r + i

ToolCall(r, i, shape) ==
    [id |-> CallId(r, i), name |-> shape.name, arguments |-> shape.arguments]

Batches(r) ==
    UNION { { [i \in 1..n |-> ToolCall(r, i, shapes[i])] : shapes \in [1..n -> CallShapes] }
            : n \in 1..MaxCalls }

\* the requests the service attaches to a run it reports with this status
Attached(r, status) ==
    IF status = "requires_action" THEN Batches(r) ELSE { <<>> }

send_email(to, subject, body) == "Email sent successfully!"

ToolOutputAlt(tool_call, position) ==
    [tool_call_id |-> position,
     output |-> send_email(tool_call.arguments.to, tool_call.arguments.subject,
                           tool_call.arguments.body)]

ToolOutput(tool_call, position) ==
    [tool_call_id |-> tool_call.id,
     output |-> send_email(tool_call.arguments.to, tool_call.arguments.subject,
                           tool_call.arguments.body)]

AddOutputAlt(acc, out) == << out >> \o acc

AddOutput(acc, out) == Append(acc, out)

RECURSIVE CollectOutputs(_, _)
CollectOutputs(batch, acc) ==
    IF batch = <<>> THEN acc
    ELSE LET tool_call == Head(batch) IN
         IF tool_call.name = "send_email"
         THEN CollectOutputs(Tail(batch),
                             AddOutput(acc, ToolOutput(tool_call, Len(acc) + 1)))
         ELSE CollectOutputs(Tail(batch), acc)

InvocationsAlt(batch) == Len(batch)

\* how many times the dispatch loop calls send_email for this batch
RECURSIVE Invocations(_)
Invocations(batch) ==
    IF batch = <<>> THEN 0
    ELSE IF Head(batch).name = "send_email"
         THEN 1 + Invocations(Tail(batch))
         ELSE Invocations(Tail(batch))

----------------------------------------------------------------------------
(* Remote service helpers *)

ResetMessagesAlt(old) == old

ResetMessages(old) == <<>>

RunIds == 1..Len(runs)

NewestMessage(t) == threads[t][Len(threads[t])]

RunAfterSubmitAlt(local, returned) == returned

RunAfterSubmit(local, returned) == local

InFlight == { r \in RunIds : runs[r].status \in InFlightStatuses }

----------------------------------------------------------------------------

Init ==
    /\ assistant_id = None
    /\ thread_id = None
    /\ messages = <<>>
    /\ email_list = <<>>
    /\ pc = "idle"
    /\ prompt = ""
    /\ run = NoRun
    /\ tool_calls = <<>>
    /\ tool_outputs = <<>>
    /\ loop = "-"
    /\ polls = 0
    /\ observed = <<>>
    /\ calls = <<>>
    /\ appended = <<>>
    /\ sent = 0
    /\ ui = ""
    /\ files = 0
    /\ assistants = 0
    /\ threads = <<>>
    /\ runs = <<>>
    /\ interactions = 0
    /\ errors = 0

----------------------------------------------------------------------------
(* The script: every user interaction reruns it from the top.              *)

RemoteCallPcs ==
    {"files_create", "assistants_create", "threads_create", "messages_create",
     "runs_create", "retrieve", "submit", "list"}

EndPcs == {"done", "stopped", "error"}

\* positions where the script is between two remote calls and computes
\* locally; a step of the service there is indistinguishable from the same
\* step taken just after, so the service is only scheduled elsewhere
LocalPcs == EndPcs \cup {"dispatch"}

NextPcAlt(status, inLoop) ==
    IF status \in PollingStatuses THEN "retrieve"
    ELSE IF status = "requires_action" THEN "dispatch"
    ELSE "list"

\* where the script goes once it holds a Run with this status
NextPc(status, inLoop) ==
    IF status \in PollingStatuses THEN "retrieve"
    ELSE IF inLoop = "A" /\ status = "requires_action" THEN "dispatch"
    ELSE "list"

\* "Create or Update Assistant" button
ClickCreate(context) ==
    /\ appended' = appended
    /\ errors' = errors
    /\ pc = "idle"
    /\ IF ContextMissing(context)
       THEN /\ ui' = "warning_context"
            /\ pc' = "done"
            /\ UNCHANGED interactions
       ELSE /\ interactions < MaxInteractions
            /\ interactions' = interactions + 1
            /\ ui' = "spinner"
            /\ pc' = "files_create"
    /\ UNCHANGED << session, locals, calls, sent, remote >>

FilesCreate ==
    /\ appended' = appended
    /\ errors' = errors
    /\ pc = "files_create"
    /\ files' = files + 1
    /\ calls' = Append(calls, "files.create")
    /\ pc' = "assistants_create"
    /\ UNCHANGED << session, locals, sent, ui, assistants, threads, runs, interactions >>

AssistantsCreate ==
    /\ appended' = appended
    /\ errors' = errors
    /\ pc = "assistants_create"
    /\ assistants' = assistants + 1
    /\ assistant_id' = assistants'
    /\ calls' = Append(calls, "assistants.create")
    /\ pc' = "threads_create"
    /\ UNCHANGED << thread_id, messages, email_list, locals, sent, ui,
                    files, threads, runs, interactions >>

ProvisionedEmailListAlt(old) == <<>>

\* the provision handler has no assignment to st.session_state.email_list
ProvisionedEmailList(old) == old

ThreadsCreate ==
    /\ appended' = appended
    /\ errors' = errors
    /\ pc = "threads_create"
    /\ threads' = Append(threads, <<>>)
    /\ thread_id' = Len(threads')
    /\ messages' = ResetMessages(messages)
    /\ email_list' = ProvisionedEmailList(email_list)
    /\ calls' = Append(calls, "threads.create")
    /\ ui' = "assistant_created"
    /\ pc' = "done"
    /\ UNCHANGED << assistant_id, locals, sent,
                    files, assistants, runs, interactions >>

AppendEmailAlt(list, email_input) ==
    IF \E i \in DOMAIN list : list[i] = email_input
    THEN list
    ELSE Append(list, email_input)

\* st.session_state.email_list.append(email_input)
AppendEmail(list, email_input) == Append(list, email_input)

\* "Add Email" button
AddEmail(email_input) ==
    /\ appended' = appended
    /\ errors' = errors
    /\ pc = "idle"
    /\ IF email_input # ""
       THEN /\ interactions < MaxInteractions
            /\ interactions' = interactions + 1
            /\ email_list' = AppendEmail(email_list, email_input)
            /\ ui' = "email_added"
       ELSE /\ ui' = "warning_email"
            /\ UNCHANGED << email_list, interactions >>
    /\ pc' = "done"
    /\ UNCHANGED << assistant_id, thread_id, messages, locals, calls, sent,
                    remote >>

\* chat input submitted
ChatInput(p) ==
    /\ errors' = errors
    /\ pc = "idle"
    /\ IF HandlesMissing(assistant_id, thread_id)
       THEN /\ ui' = "error_no_assistant"
            /\ pc' = "stopped"
            /\ UNCHANGED << messages, prompt, appended, interactions >>
       ELSE /\ interactions < MaxInteractions
            /\ interactions' = interactions + 1
            /\ messages' = Append(messages, Message("user", p))
            /\ appended' = << Message("user", p) >>
            /\ prompt' = p
            /\ ui' = "chat"
            /\ pc' = "messages_create"
    /\ UNCHANGED << assistant_id, thread_id, email_list, run, tool_calls,
                    tool_outputs, loop, polls, observed, calls, sent, remote >>

PostedMessageAlt(p) == Message("assistant", p)

\* what messages.create adds to the thread
PostedMessage(p) == Message("user", p)

MessagesCreate ==
    /\ appended' = appended
    /\ errors' = errors
    /\ pc = "messages_create"
    /\ threads' = [threads EXCEPT ![thread_id] = Append(@, PostedMessage(prompt))]
    /\ calls' = Append(calls, "messages.create")
    /\ pc' = "runs_create"
    /\ UNCHANGED << session, locals, sent, ui, files, assistants, runs, interactions >>

RunsCreate ==
    /\ appended' = appended
    /\ errors' = errors
    /\ pc = "runs_create"
    /\ runs' = Append(runs, [thread_id |-> thread_id, status |-> "queued"])
    /\ run' = [id |-> Len(runs'), status |-> "queued"]
    /\ loop' = "A"
    /\ polls' = 0
    /\ observed' = << "queued" >>
    /\ calls' = Append(calls, "runs.create")
    /\ pc' = NextPc("queued", "A")
    /\ UNCHANGED << session, prompt, tool_calls, tool_outputs, sent, ui,
                    files, assistants, threads, interactions >>

\* one turn of a waiting loop: sleep, then runs.retrieve; the service
\* attaches the tool calls it wants to a run that requires action
RunsRetrieve(status, batch) ==
    /\ appended' = appended
    /\ errors' = errors
    /\ pc = "retrieve"
    /\ polls < MaxPolls \/ runs[run.id].status \notin PollingStatuses
    /\ status \in Reported(runs[run.id].status)
    /\ batch \in Attached(run.id, status)
    /\ run' = [id |-> run.id, status |-> status]
    /\ tool_calls' = batch
    /\ polls' = polls + 1
    /\ observed' = Append(observed, run'.status)
    /\ calls' = Append(calls, "runs.retrieve")
    /\ pc' = NextPc(run'.status, loop)
    /\ UNCHANGED << session, prompt, tool_outputs, loop, sent, ui, remote, interactions >>

\* the for loop over tool_calls of the requires_action branch
Dispatch ==
    /\ appended' = appended
    /\ errors' = errors
    /\ pc = "dispatch"
    /\ tool_outputs' = CollectOutputs(tool_calls, <<>>)
    /\ sent' = sent + Invocations(tool_calls)
    /\ pc' = "submit"
    /\ UNCHANGED << session, prompt, run, tool_calls, loop, polls, observed, calls, ui,
                    remote, interactions >>

\* json.loads or args[...] raises on the arguments of a send_email request
\* that are not a JSON object with the three keys: the script run dies in
\* the dispatch loop
DispatchError ==
    /\ appended' = appended
    /\ pc = "dispatch"
    /\ \E i \in DOMAIN tool_calls : tool_calls[i].name = "send_email"
    /\ errors < MaxErrors
    /\ errors' = errors + 1
    /\ pc' = "error"
    /\ ui' = "exception"
    /\ UNCHANGED << session, locals, calls, sent, remote, interactions >>

\* tool_outputs goes to the service; neither it nor the requests are read
\* again by the script, so the model lets go of both here
SubmitToolOutputs ==
    /\ appended' = appended
    /\ errors' = errors
    /\ pc = "submit"
    /\ runs' = [runs EXCEPT ![run.id].status = "queued"]
    /\ run' = RunAfterSubmit(run, [id |-> run.id, status |-> "queued"])
    /\ tool_calls' = <<>>
    /\ tool_outputs' = <<>>
    /\ loop' = "B"
    /\ polls' = 0
    /\ calls' = Append(calls, "runs.submit_tool_outputs")
    /\ pc' = NextPc(run'.status, "B")
    /\ UNCHANGED << session, prompt, observed, sent, ui,
                    files, assistants, threads, interactions >>

MessagesList ==
    /\ errors' = errors
    /\ pc = "list"
    /\ LET assistant_message == NewestMessage(thread_id).content IN
          /\ messages' = Append(messages, Message("assistant", assistant_message))
          /\ appended' = Append(appended, Message("assistant", assistant_message))
    /\ calls' = Append(calls, "messages.list")
    /\ pc' = "done"
    /\ UNCHANGED << assistant_id, thread_id, email_list, locals, sent, ui,
                    remote, interactions >>

\* a remote call raises: the script run dies where it stands
RemoteError ==
    /\ appended' = appended
    /\ pc \in RemoteCallPcs
    /\ errors < MaxErrors
    /\ errors' = errors + 1
    /\ pc' = "error"
    /\ ui' = "exception"
    /\ UNCHANGED << session, locals, calls, sent, remote, interactions >>

\* the script run is over; its locals are gone, the session state stays
ScriptEnd ==
    /\ errors' = errors
    /\ pc \in EndPcs
    /\ pc' = "idle"
    /\ prompt' = ""
    /\ run' = NoRun
    /\ tool_calls' = <<>>
    /\ tool_outputs' = <<>>
    /\ loop' = "-"
    /\ polls' = 0
    /\ observed' = <<>>
    /\ calls' = <<>>
    /\ appended' = <<>>
    /\ sent' = 0
    /\ ui' = ""
    /\ UNCHANGED << session, remote, interactions >>

----------------------------------------------------------------------------
(* The remote service working on its runs *)

RunStarts(r) ==
    /\ pc \notin LocalPcs
    /\ appended' = appended
    /\ errors' = errors
    /\ runs[r].status = "queued"
    /\ runs' = [runs EXCEPT ![r].status = "in_progress"]
    /\ UNCHANGED << session, pc, locals, calls, sent, ui,
                    files, assistants, threads, interactions >>

RunCompletes(r) ==
    /\ pc \notin LocalPcs
    /\ appended' = appended
    /\ errors' = errors
    /\ runs[r].status = "in_progress"
    /\ runs' = [runs EXCEPT ![r].status = "completed"]
    /\ threads' = [threads EXCEPT ![runs[r].thread_id] =
                       Append(@, Message("assistant", ReplyText(r)))]
    /\ UNCHANGED << session, pc, locals, calls, sent, ui,
                    files, assistants, interactions >>

RunRequiresAction(r) ==
    /\ pc \notin LocalPcs
    /\ appended' = appended
    /\ errors' = errors
    /\ runs[r].status = "in_progress"
    /\ runs' = [runs EXCEPT ![r].status = "requires_action"]
    /\ UNCHANGED << session, pc, locals, calls, sent, ui,
                    files, assistants, threads, interactions >>

RunEndsWithoutOutput(r) ==
    /\ pc \notin LocalPcs
    /\ appended' = appended
    /\ errors' = errors
    /\ runs[r].status \in PollingStatuses
    /\ runs' = [runs EXCEPT ![r].status = "no_output"]
    /\ UNCHANGED << session, pc, locals, calls, sent, ui,
                    files, assistants, threads, interactions >>

----------------------------------------------------------------------------

Next ==
    \/ \E context \in Contexts : ClickCreate(context)
    \/ FilesCreate
    \/ AssistantsCreate
    \/ ThreadsCreate
    \/ \E email_input \in EmailInputs : AddEmail(email_input)
    \/ \E p \in Prompts(interactions + 1) : ChatInput(p)
    \/ MessagesCreate
    \/ RunsCreate
    \/ /\ pc = "retrieve"
       /\ \E status \in Reported(runs[run.id].status) :
             \E batch \in Attached(run.id, status) : RunsRetrieve(status, batch)
    \/ Dispatch
    \/ DispatchError
    \/ SubmitToolOutputs
    \/ MessagesList
    \/ RemoteError
    \/ ScriptEnd
    \/ \E r \in RunIds : RunStarts(r)
    \/ \E r \in RunIds : RunCompletes(r)
    \/ \E r \in RunIds : RunRequiresAction(r)
    \/ \E r \in RunIds : RunEndsWithoutOutput(r)

Spec == Init /\ [][Next]_vars

----------------------------------------------------------------------------
(* Properties *)

Count(seq, x) == Cardinality({ i \in DOMAIN seq : seq[i] = x })

Ids(batch) == [i \in DOMAIN batch |-> batch[i].id]

OutputIds(outputs) == [i \in DOMAIN outputs |-> outputs[i].tool_call_id]

IsSendEmail(tool_call) == tool_call.name = "send_email"

\* the chat handler of this script run reached its last line
CycleRanToEnd == pc = "done" /\ run.id # None

\* C1: in a cycle whose loop A ended with requires_action, the remote Run is
\* no longer queued or in_progress at the moment the script lists the thread
\* messages (the second waiting loop has driven it out of the polling set).
C1_RunSettledBeforeFetch ==
    (pc = "list" /\ loop = "B")
        => runs[run.id].status \notin {"queued", "in_progress"}

\* C2: after a prompt cycle that ran to its end, with or without a tool
\* round, and whose Run did not end without a reply, the transcript ends
\* with (user, prompt), (assistant, the reply of that Run).
C2_TranscriptEndsWithReply ==
    (CycleRanToEnd /\ runs[run.id].status # "no_output")
        => /\ Len(messages) >= 2
           /\ messages[Len(messages) - 1] = Message("user", prompt)
           /\ messages[Len(messages)] = Message("assistant", ReplyText(run.id))

\* C3 (as stated): in a cycle with a tool round send_email ran exactly once
\* for every ToolCallRequest of the batch, the outputs were submitted once
\* and one assistant Message was appended.
C3_OncePerRequest ==
    /\ pc = "submit" => sent = Len(tool_calls)
    /\ (CycleRanToEnd /\ loop = "B")
          => /\ Count(calls, "runs.submit_tool_outputs") = 1
             /\ Len(appended) = 2
             /\ appended[2].role = "assistant"

\* C3 (amended): in a cycle with a tool round send_email ran exactly once
\* for every ToolCallRequest named send_email and for no other request (by
\* the time the outputs are submitted, and never again in that cycle); the
\* outputs were submitted exactly once and exactly one assistant Message
\* was appended.
C3_OncePerSendEmailRequest ==
    /\ [](pc = "submit" => sent = Len(SelectSeq(tool_calls, IsSendEmail)))
    /\ [][(pc \in {"submit", "list"}) => (sent' = sent)]_vars
    /\ []((CycleRanToEnd /\ loop = "B")
            => /\ Count(calls, "runs.submit_tool_outputs") = 1
               /\ Len(appended) = 2
               /\ appended[1].role = "user"
               /\ appended[2].role = "assistant")

C3_Witness ==
    /\ CycleRanToEnd /\ loop = "B"
    /\ runs[run.id].status = "completed"
    /\ sent = 2

\* C4: loop A makes one retrieve query per status of the polling set it has
\* seen and leaves exactly when the status it sees is outside
\* {queued, in_progress}; the messages are never listed while the status
\* the script last saw is queued or in_progress.
C4_LoopAExit ==
    /\ (loop = "A" /\ pc = "retrieve")
          => /\ polls = Len(observed) - 1
             /\ \A i \in DOMAIN observed : observed[i] \in {"queued", "in_progress"}
    /\ (loop = "A" /\ pc \in {"dispatch", "submit", "list", "done"})
          => /\ polls = Len(observed) - 1
             /\ polls = Count(calls, "runs.retrieve")
             /\ \A i \in 1..(Len(observed) - 1) :
                    observed[i] \in {"queued", "in_progress"}
             /\ observed[Len(observed)] \notin {"queued", "in_progress"}
    /\ pc = "list" => run.status \notin {"queued", "in_progress"}

C4_Witness ==
    /\ pc = "list"
    /\ loop = "A"
    /\ observed = << "queued", "in_progress", "completed" >>
    /\ polls = 2

\* C5: a prompt submitted while a handle is absent only shows the
\* precondition error: no Message is appended, no remote call is made, the
\* handles and the recipient list stay, and the script run just stops, after
\* which the session is idle again with the same state.
C5_GuardRejects ==
    [][ /\ \A p \in Prompts(interactions + 1) :
              (ChatInput(p) /\ (assistant_id = None \/ thread_id = None))
                  => /\ ui' = "error_no_assistant"
                     /\ pc' = "stopped"
                     /\ session' = session
                     /\ remote' = remote
                     /\ calls' = <<>>
                     /\ appended' = <<>>
        /\ pc = "stopped" => (pc' = "idle" /\ session' = session /\ remote' = remote)
      ]_vars

C5_Witness ==
    /\ pc = "stopped"
    /\ ui = "error_no_assistant"
    /\ assistant_id # None
    /\ thread_id = None

Blank(context) == \A i \in DOMAIN context : context[i] = " "

\* C6: "Create or Update Assistant" with an empty or whitespace-only context
\* makes no remote call and leaves both handles and the transcript as they
\* were: the script only shows the warning and runs to its end.
C6_BlankContextRejected ==
    [][ /\ \A context \in Contexts :
              (ClickCreate(context) /\ Blank(context))
                  => /\ ui' = "warning_context"
                     /\ pc' = "done"
                     /\ calls' = <<>>
                     /\ remote' = remote
                     /\ session' = session
        /\ (pc = "done" /\ ui = "warning_context")
              => (pc' = "idle" /\ session' = session /\ remote' = remote)
      ]_vars

C6_Witness ==
    /\ pc = "done"
    /\ ui = "warning_context"
    /\ assistant_id # None
    /\ messages # <<>>

\* C7: a provision that succeeds stores an assistant id and a thread id that
\* the service has just issued (never issued or stored before) and leaves
\* the transcript empty.
C7_ProvisionReplacesHandles ==
    [][ /\ (pc = "assistants_create" /\ pc' = "threads_create")
            => /\ assistant_id' \notin 0..assistants
               /\ assistant_id' # assistant_id
        /\ (pc = "threads_create" /\ pc' = "done")
            => /\ assistant_id' = assistant_id
               /\ assistant_id = assistants
               /\ thread_id' \notin 0..Len(threads)
               /\ thread_id' # thread_id
               /\ threads'[thread_id'] = <<>>
               /\ messages' = <<>>
      ]_vars

C7_Witness ==
    /\ pc = "done"
    /\ ui = "assistant_created"
    /\ assistant_id = 2
    /\ thread_id = 2
    /\ threads[1] # <<>>
    /\ messages = <<>>

\* C8: send_email returns the fixed success text whatever its arguments,
\* and every send_email request of the batch has exactly one ToolOutput,
\* carrying that text and the request's call identifier.
C8_ToolFulfilment ==
    /\ \A a \in Arguments :
           send_email(a.to, a.subject, a.body) = "Email sent successfully!"
    /\ pc = "submit" =>
           \A i \in DOMAIN tool_calls :
               IsSendEmail(tool_calls[i]) =>
                   Cardinality({ j \in DOMAIN tool_outputs :
                       tool_outputs[j] =
                           [tool_call_id |-> tool_calls[i].id,
                            output |-> "Email sent successfully!"] }) = 1

C8_Witness ==
    /\ pc = "submit"
    /\ Len(tool_outputs) = 2
    /\ tool_calls[1].arguments # tool_calls[2].arguments

\* C9 (as stated): the batch handed to submit_tool_outputs has one
\* ToolOutput per ToolCallRequest of the Run, in request order, whatever
\* the function names.
C9_OutputPerRequest ==
    pc = "submit" => OutputIds(tool_outputs) = Ids(tool_calls)

\* C9 (amended): the batch handed to submit_tool_outputs has exactly one
\* ToolOutput per ToolCallRequest named send_email, in the order of those
\* requests, and none for a request with another function name.
C9_OutputPerSendEmailRequest ==
    pc = "submit" =>
        OutputIds(tool_outputs) = Ids(SelectSeq(tool_calls, IsSendEmail))

C9_Witness ==
    /\ pc = "submit"
    /\ Len(tool_calls) = 2
    /\ Len(tool_outputs) = 2
    /\ tool_outputs[1].tool_call_id # tool_outputs[2].tool_call_id

\* C10: as long as no remote call has failed, at most one Run of the
\* session is queued, in_progress or requires_action at any time, so a new
\* Run is never started while an earlier cycle's Run is not yet terminal.
C10_OneRunInFlight == errors = 0 => Cardinality(InFlight) <= 1

\* C11: a prompt cycle performs at most one tool round: the outputs are
\* submitted at most once, and after the submission the dispatch loop is
\* never entered and send_email is never invoked again; if the resumed Run
\* requests action again, the cycle still ends by listing the messages and
\* appending exactly one assistant Message, the newest thread message.
C11_SingleToolRound ==
    /\ [](Count(calls, "runs.submit_tool_outputs") <= 1)
    /\ [][(loop = "B" /\ loop' = "B") => (sent' = sent /\ pc' # "dispatch")]_vars
    /\ []((CycleRanToEnd /\ loop = "B")
            => /\ calls[Len(calls)] = "messages.list"
               /\ Count(calls, "messages.list") = 1
               /\ Len(appended) = 2
               /\ appended[2] =
                      Message("assistant", NewestMessage(thread_id).content)
               /\ appended[1].role = "user")

C11_Witness ==
    /\ CycleRanToEnd
    /\ loop = "B"
    /\ runs[run.id].status = "requires_action"
    /\ Len(appended) = 2
    /\ sent = 1

IsPrefix(s, t) == Len(s) <= Len(t) /\ SubSeq(t, 1, Len(s)) = s

\* no Run of the session has ended failed, cancelled or expired
NoRunLost == \A r \in RunIds : runs[r].status # "no_output"

\* C12: whenever no prompt cycle is in progress (and no remote call has
\* failed and no Run has ended without a reply), the local transcript
\* equals the message log of the current remote thread, entry by entry,
\* also after a cycle with a tool round; and a prompt cycle only ever
\* appends to the local transcript.
C12_TranscriptMirrorsThread ==
    /\ []((pc \in {"idle", "done"} /\ thread_id # None /\ errors = 0 /\ NoRunLost)
            => messages = threads[thread_id])
    /\ [][(pc # "threads_create") => IsPrefix(messages, messages')]_vars

\* C13: every entry a script run appends to the local transcript with role
\* assistant carries the text of a message of the remote thread whose role
\* is assistant, and never the prompt of that cycle.
C13_ReplyIsAssistantText ==
    \A i \in DOMAIN appended :
        appended[i].role = "assistant"
            => /\ \E j \in DOMAIN threads[thread_id] :
                      threads[thread_id][j] = Message("assistant", appended[i].content)
               /\ appended[i].content # prompt

\* C14: when runs.retrieve raises in a waiting loop, the script run dies
\* with the user Message appended locally (last entry) and present in the
\* remote thread, and no assistant Message appended; the failing step and
\* the end of the script run change neither the session state nor the
\* remote state and make no further call (no rollback, no retry); both
\* handles are still set, so the guard of the next prompt passes.
C14_PollingFailure ==
    [][ /\ (pc = "retrieve" /\ pc' = "error")
            => /\ session' = session
               /\ remote' = remote
               /\ calls' = calls
               /\ appended' = appended
               /\ appended = << Message("user", prompt) >>
               /\ messages[Len(messages)] = Message("user", prompt)
               /\ \E j \in DOMAIN threads[thread_id] :
                      threads[thread_id][j] = Message("user", prompt)
               /\ assistant_id # None /\ thread_id # None
        /\ (pc = "error" /\ pc' # "error")
            => /\ pc' = "idle"
               /\ session' = session
               /\ remote' = remote
      ]_vars

C14_Witness ==
    /\ pc = "error"
    /\ run.id # None
    /\ run.status = "in_progress"
    /\ Len(messages) = 1

\* C15: a script run that has stored a new assistant id has, when it ends
\* (normally or by an exception), also stored a new thread id and emptied
\* the transcript; so between script runs the two handles are both absent
\* or both present, and come from the same provision.
C15_HandlesFromSameProvision ==
    /\ (pc \in EndPcs /\ Count(calls, "assistants.create") > 0)
          => /\ Count(calls, "threads.create") > 0
             /\ thread_id = Len(threads)
             /\ messages = <<>>
    /\ pc = "idle" => (assistant_id = None <=> thread_id = None)

ProvisionPcs == {"files_create", "assistants_create", "threads_create"}

\* C16 (as stated): after a successful provision the assistant handle and
\* the conversation handle are new, the transcript is empty and the
\* recipient list is empty.
C16_ProvisionRebuildsAll ==
    (pc = "done" /\ ui = "assistant_created")
        => /\ assistant_id = assistants
           /\ thread_id = Len(threads)
           /\ messages = <<>>
           /\ email_list = <<>>

\* C16 (amended): a successful provision replaces the assistant handle and
\* the conversation handle by newly issued ones and empties the transcript;
\* no step of the provision touches the recipient list, so every address
\* recorded before the provision remains afterwards, in the same order.
C16_ProvisionKeepsRecipients ==
    [][ /\ (pc' \in ProvisionPcs \/ pc \in ProvisionPcs)
            => email_list' = email_list
        /\ (pc = "threads_create" /\ pc' = "done")
            => /\ assistant_id' = assistants
               /\ thread_id' = Len(threads')
               /\ thread_id' # thread_id
               /\ threads'[thread_id'] = <<>>
               /\ messages' = <<>>
      ]_vars

C16_Witness ==
    /\ pc = "done"
    /\ ui = "assistant_created"
    /\ assistant_id = 2
    /\ email_list = << "a@example.com" >>

Alternates(log) ==
    /\ Len(log) % 2 = 0
    /\ \A i \in DOMAIN log :
           log[i].role = (IF i % 2 = 1 THEN "user" ELSE "assistant")

\* user entries of the log that have no assistant entry right after them
Unanswered(log) ==
    { i \in DOMAIN log :
        /\ log[i].role = "user"
        /\ (i = Len(log) \/ log[i + 1].role = "user") }

\* C17 (as stated): whenever no script run is in progress, whatever the
\* provisions, prompt cycles, email additions and remote failures so far,
\* the local transcript has even length and its roles alternate user,
\* assistant, starting with user.
C17_TranscriptAlternates == pc = "idle" => Alternates(messages)

\* C17 (amended): whenever no script run is in progress, every assistant
\* entry of the local transcript directly follows a user entry, and there
\* are at most as many user entries without an assistant entry after them
\* as script runs have died of an exception; so while none has, the
\* transcript has even length and alternates user, assistant.
C17_AlternatesUpToFailures ==
    pc = "idle" =>
        /\ \A i \in DOMAIN messages :
               messages[i].role = "assistant"
                   => (i > 1 /\ messages[i - 1].role = "user")
        /\ \A i \in DOMAIN messages : messages[i].role \in {"user", "assistant"}
        /\ Cardinality(Unanswered(messages)) <= errors
        /\ errors = 0 => Alternates(messages)

C17_Witness ==
    /\ pc = "idle"
    /\ errors = 0
    /\ Len(messages) = 4

ChatPcs ==
    {"messages_create", "runs_create", "retrieve", "dispatch", "submit", "list"}

\* C18: no step of a prompt cycle (the submission of the prompt, the remote
\* calls, the dispatch loop, an exception) changes the assistant handle,
\* the conversation handle or the recipient list; Add Email with a
\* non-empty input appends exactly that string at the end of the recipient
\* list, also when it is already there, with an empty input it leaves the
\* list as it is, and it never changes a handle, the transcript or anything
\* on the service.
C18_Frame ==
    [][ /\ (pc \in ChatPcs \/ pc' \in ChatPcs \/ pc' = "stopped")
            => /\ assistant_id' = assistant_id
               /\ thread_id' = thread_id
               /\ email_list' = email_list
        /\ \A email_input \in EmailInputs :
               AddEmail(email_input)
                   => /\ email_list' = (IF email_input = "" THEN email_list
                                        ELSE email_list \o << email_input >>)
                      /\ assistant_id' = assistant_id
                      /\ thread_id' = thread_id
                      /\ messages' = messages
                      /\ remote' = remote
      ]_vars

C18_Witness ==
    /\ pc = "done"
    /\ ui = "email_added"
    /\ assistant_id # None
    /\ email_list = << "a@example.com", "a@example.com" >>

====
